---- MODULE Spec2Model ----
(***************************************************************************)
(* Hostinger MCP server: the protocol/dispatch core of the two entry       *)
(* points of the repository.                                               *)
(*   "index"  : src/index.js, the stdio server (26 tools).                 *)
(*   "server" : the HTTP/SSE server whose source is listed in              *)
(*              src/README.md from line 167 on (19 tools, express app      *)
(*              with POST /mcp and GET /sse, stdio when MCP_MODE=stdio).   *)
(***************************************************************************)
EXTENDS Integers, Sequences, FiniteSets, TLC

VARIABLES
    entry,      \* which entry point this process runs: "index" or "server"
    env,        \* process.env: [apiKey, mcpMode]
    phase,      \* "start" | "constructed" | "running" | "failed"
    sessions,   \* transports connected to this.server so far, in order: <<kind, ...>>
    transport,  \* Protocol._transport of this.server: index into sessions, 0 = none
    calls,      \* tool calls suspended at `await fetch(url, options)`
    last,       \* what the most recent step put on the wire (NoTxn if nothing)
    handlers,   \* the methods this.server has a request handler for
    routes,     \* the HTTP endpoints the process listens on
    listed      \* history of tools/list: the tools first answered, and whether
                \* another tools/list has been answered since

vars == <<entry, env, phase, sessions, transport, calls, last, handlers, routes, listed>>

----------------------------------------------------------------------------
(* Bounds of the model.                                                    *)

MaxId == 1          \* numeric request ids are 0..MaxId
MaxInFlight == 2    \* tool calls awaiting the collaborator at the same time
MaxSessions == 2    \* transports connected to this.server in one run

----------------------------------------------------------------------------
(* JavaScript values: undefined, null, numbers, strings.                   *)

JUndef == [t |-> "undef"]
JNull == [t |-> "null"]
JNum(k) == [t |-> "num", n |-> k]
JStr(x) == [t |-> "str", s |-> x]

\* ToBoolean(v): undefined, null, 0 and "" are falsy.
Truthy(v) ==
    CASE v.t = "undef" -> FALSE
      [] v.t = "null" -> FALSE
      [] v.t = "num" -> v.n # 0
      [] v.t = "str" -> v.s # ""
      [] OTHER -> TRUE

\* a || b
OrElse(a, b) == IF Truthy(a) THEN a ELSE b

\* `${v}` in a template literal.
Interp(v) ==
    CASE v.t = "undef" -> "undefined"
      [] v.t = "null" -> "null"
      [] v.t = "num" -> ToString(v.n)
      [] v.t = "str" -> v.s
      [] OTHER -> "[object Object]"

\* A JavaScript object with string keys is a function from its keys; a value
\* that may be an object or undefined/null is [k |-> "obj", obj |-> f],
\* [k |-> "undef"] or [k |-> "null"].
EmptyObj == [key \in {} |-> JUndef]
Obj(f) == [k |-> "obj", obj |-> f]
NoObj == [k |-> "undef"]
NullObj == [k |-> "null"]

\* o.key for an object o: undefined when the key is missing.
Get(o, key) == IF key \in DOMAIN o.obj THEN o.obj[key] ELSE JUndef

\* const { k1, ..., ...rest } = o : the rest object.
Rest(o, keys) == [key \in (DOMAIN o.obj) \ keys |-> o.obj[key]]

----------------------------------------------------------------------------
(* JSON values returned by the collaborator and JSON.stringify(v, null, 2). *)

\* A JSON string (a value or a member's key) is the sequence of its
\* characters, each a one-character string.
JsNull == [j |-> "null"]
JsBool(b) == [j |-> "bool", b |-> b]
JsNum(k) == [j |-> "num", n |-> k]
JsStr(x) == [j |-> "str", s |-> x]
JsArr(items) == [j |-> "arr", items |-> items]
JsObj(members) == [j |-> "obj", members |-> members]   \* <<[key, val], ...>>

\* The characters of a string one after the other.
RECURSIVE Concat(_)
Concat(chars) == IF Len(chars) = 0 THEN "" ELSE Head(chars) \o Concat(Tail(chars))

\* JSON.stringify's escape of one character of a string.
Escape(c) ==
    CASE c = "\"" -> "\\\""
      [] c = "\\" -> "\\\\"
      [] c = "\n" -> "\\n"
      [] OTHER -> c

\* A string between quotes with nothing escaped.
QuoteRaw(x) == "\"" \o Concat(x) \o "\""

\* JSON.stringify of a string.
Quote(x) == "\"" \o Concat([i \in 1..Len(x) |-> Escape(x[i])]) \o "\""

RECURSIVE Spaces(_)
Spaces(k) == IF k = 0 THEN "" ELSE " " \o Spaces(k - 1)

RECURSIVE Stringify(_, _)
RECURSIVE StringifyItems(_, _, _)
RECURSIVE StringifyMembers(_, _, _)

\* items i..Len of an array, each on its own line at the given indent.
StringifyItems(items, i, indent) ==
    IF i > Len(items) THEN ""
    ELSE Spaces(indent) \o Stringify(items[i], indent)
         \o (IF i < Len(items) THEN ",\n" ELSE "\n")
         \o StringifyItems(items, i + 1, indent)

StringifyMembers(members, i, indent) ==
    IF i > Len(members) THEN ""
    ELSE Spaces(indent) \o Quote(members[i].key) \o ": "
         \o Stringify(members[i].val, indent)
         \o (IF i < Len(members) THEN ",\n" ELSE "\n")
         \o StringifyMembers(members, i + 1, indent)

\* JSON.stringify(v, null, 2) of a value nested at the given indent.
Stringify(v, indent) ==
    CASE v.j = "null" -> "null"
      [] v.j = "bool" -> (IF v.b THEN "true" ELSE "false")
      [] v.j = "num" -> ToString(v.n)
      [] v.j = "str" -> Quote(v.s)
      [] v.j = "arr" ->
            IF Len(v.items) = 0 THEN "[]"
            ELSE "[\n" \o StringifyItems(v.items, 1, indent + 2)
                 \o Spaces(indent) \o "]"
      [] v.j = "obj" ->
            IF Len(v.members) = 0 THEN "{}"
            ELSE "{\n" \o StringifyMembers(v.members, 1, indent + 2)
                 \o Spaces(indent) \o "}"

JSONstringify(v) == Stringify(v, 0)

----------------------------------------------------------------------------
(* The tool catalog of each entry point (tools/list) and the names the     *)
(* switch of its tools/call handler has a case for.                        *)

IndexTools ==
    << "list_vps", "get_vps", "start_vps", "stop_vps", "restart_vps",
       "get_vps_usage",
       "list_domains", "get_domain", "get_domain_dns", "create_dns_record",
       "update_dns_record", "delete_dns_record",
       "list_hosting_accounts", "get_hosting_account", "get_hosting_usage",
       "list_email_accounts", "create_email_account", "delete_email_account",
       "list_ssl_certificates", "get_ssl_certificate", "create_ssl_certificate",
       "list_backups", "create_backup", "restore_backup",
       "get_account_info", "get_invoices" >>

ServerTools ==
    << "list_vps", "get_vps", "start_vps", "stop_vps", "restart_vps",
       "get_vps_usage",
       "list_domains", "get_domain", "get_domain_dns", "create_dns_record",
       "update_dns_record", "delete_dns_record",
       "list_hosting_accounts", "get_hosting_account", "get_hosting_usage",
       "list_email_accounts", "create_email_account", "delete_email_account",
       "get_account_info" >>

\* handleListTools / the ListToolsRequestSchema handler: the descriptor names
\* in listing order.
Catalog(e) == IF e = "index" THEN IndexTools ELSE ServerTools

Range(seq) == {seq[i] : i \in 1..Len(seq)}

IndexCases ==
    { "list_vps", "get_vps", "start_vps", "stop_vps", "restart_vps",
      "get_vps_usage", "list_domains", "get_domain", "get_domain_dns",
      "create_dns_record", "update_dns_record", "delete_dns_record",
      "list_hosting_accounts", "get_hosting_account", "get_hosting_usage",
      "list_email_accounts", "create_email_account", "delete_email_account",
      "list_ssl_certificates", "get_ssl_certificate", "create_ssl_certificate",
      "list_backups", "create_backup", "restore_backup",
      "get_account_info", "get_invoices" }

ServerCases ==
    { "list_vps", "get_vps", "start_vps", "stop_vps", "restart_vps",
      "get_vps_usage", "list_domains", "get_domain", "get_domain_dns",
      "create_dns_record", "update_dns_record", "delete_dns_record",
      "list_hosting_accounts", "get_hosting_account", "get_hosting_usage",
      "list_email_accounts", "create_email_account", "delete_email_account",
      "get_account_info" }

\* The switch of index.js without a case for the last tool of its catalog.
CasesDrifted(e) == IF e = "index" THEN IndexCases \ {"get_invoices"} ELSE ServerCases

\* The case labels of switch (name).
Cases(e) == IF e = "index" THEN IndexCases ELSE ServerCases

----------------------------------------------------------------------------
(* The tool methods: what each reads from the arguments, the collaborator  *)
(* request it makes and the text it renders.                               *)

\* The properties the case of the switch reads off `args` (args.vps_id, ...)
\* before it calls the tool method; <<>> when it passes args whole or nothing.
PropsRead(name) ==
    CASE name \in {"get_vps", "start_vps", "stop_vps", "restart_vps"} -> <<"vps_id">>
      [] name = "get_vps_usage" -> <<"vps_id", "period">>
      [] name \in {"get_domain", "get_domain_dns", "list_email_accounts"} -> <<"domain_id">>
      [] name = "delete_dns_record" -> <<"domain_id", "record_id">>
      [] name \in {"get_hosting_account", "get_hosting_usage"} -> <<"account_id">>
      [] name = "delete_email_account" -> <<"domain_id", "email">>
      [] name = "get_ssl_certificate" -> <<"certificate_id">>
      [] name = "list_backups" -> <<"resource_id", "resource_type">>
      [] name = "restore_backup" -> <<"backup_id", "resource_id">>
      [] OTHER -> <<>>

\* The properties a tool method destructures from its `data` parameter
\* (const { domain_id, ...recordData } = data).
Destructured(name) ==
    CASE name \in {"create_dns_record", "create_email_account"} -> <<"domain_id">>
      [] name = "update_dns_record" -> <<"domain_id", "record_id">>
      [] name = "create_backup" -> <<"resource_id", "resource_type">>
      [] OTHER -> <<>>

\* getInvoices(params = {}): the default replaces undefined only.
InvoiceParams(args) == IF args.k = "undef" THEN Obj(EmptyObj) ELSE args

\* A default written as `v || d`: it also replaces null, 0 and "".
DefaultIfFalsy(v, d) == OrElse(v, d)

\* name = default in a parameter list or destructuring pattern.
Default(v, d) == IF v.t = "undef" THEN d ELSE v

\* The TypeError a tool call raises before any collaborator request, "" if none.
ArgumentError(name, args) ==
    CASE Len(PropsRead(name)) > 0 /\ args.k # "obj" ->
            "Cannot read properties of " \o (IF args.k = "undef" THEN "undefined" ELSE "null")
            \o " (reading '" \o PropsRead(name)[1] \o "')"
      [] Len(Destructured(name)) > 0 /\ args.k # "obj" ->
            "Cannot destructure property '" \o Destructured(name)[1] \o "' of 'data' as it is "
            \o (IF args.k = "undef" THEN "undefined" ELSE "null") \o "."
      [] name = "get_invoices" /\ args.k = "null" ->
            "Cannot destructure property 'limit' of 'params' as it is null."
      [] OTHER -> ""

\* The endpoint argument of makeRequest; a is the arguments object.
Endpoint(name, a) ==
    CASE name = "list_vps" -> "/v1/vps"
      [] name = "get_vps" -> "/v1/vps/" \o Interp(Get(a, "vps_id"))
      [] name = "start_vps" -> "/v1/vps/" \o Interp(Get(a, "vps_id")) \o "/start"
      [] name = "stop_vps" -> "/v1/vps/" \o Interp(Get(a, "vps_id")) \o "/stop"
      [] name = "restart_vps" -> "/v1/vps/" \o Interp(Get(a, "vps_id")) \o "/restart"
      [] name = "get_vps_usage" ->
            "/v1/vps/" \o Interp(Get(a, "vps_id")) \o "/usage?period="
            \o Interp(Default(Get(a, "period"), JStr("24h")))
      [] name = "list_domains" -> "/v1/domains"
      [] name = "get_domain" -> "/v1/domains/" \o Interp(Get(a, "domain_id"))
      [] name = "get_domain_dns" -> "/v1/domains/" \o Interp(Get(a, "domain_id")) \o "/dns"
      [] name = "create_dns_record" -> "/v1/domains/" \o Interp(Get(a, "domain_id")) \o "/dns"
      [] name = "update_dns_record" ->
            "/v1/domains/" \o Interp(Get(a, "domain_id")) \o "/dns/"
            \o Interp(Get(a, "record_id"))
      [] name = "delete_dns_record" ->
            "/v1/domains/" \o Interp(Get(a, "domain_id")) \o "/dns/"
            \o Interp(Get(a, "record_id"))
      [] name = "list_hosting_accounts" -> "/v1/hosting"
      [] name = "get_hosting_account" -> "/v1/hosting/" \o Interp(Get(a, "account_id"))
      [] name = "get_hosting_usage" ->
            "/v1/hosting/" \o Interp(Get(a, "account_id")) \o "/usage"
      [] name = "list_email_accounts" ->
            "/v1/domains/" \o Interp(Get(a, "domain_id")) \o "/email"
      [] name = "create_email_account" ->
            "/v1/domains/" \o Interp(Get(a, "domain_id")) \o "/email"
      [] name = "delete_email_account" ->
            "/v1/domains/" \o Interp(Get(a, "domain_id")) \o "/email/"
            \o Interp(Get(a, "email"))
      [] name = "list_ssl_certificates" -> "/v1/ssl"
      [] name = "get_ssl_certificate" -> "/v1/ssl/" \o Interp(Get(a, "certificate_id"))
      [] name = "create_ssl_certificate" -> "/v1/ssl"
      [] name = "list_backups" ->
            "/v1/" \o Interp(Get(a, "resource_type")) \o "/"
            \o Interp(Get(a, "resource_id")) \o "/backups"
      [] name = "create_backup" ->
            "/v1/" \o Interp(Get(a, "resource_type")) \o "/"
            \o Interp(Get(a, "resource_id")) \o "/backups"
      [] name = "restore_backup" ->
            "/v1/backups/" \o Interp(Get(a, "backup_id")) \o "/restore"
      [] name = "get_account_info" -> "/v1/account"
      [] name = "get_invoices" ->
            "/v1/invoices?limit=" \o Interp(Default(Get(a, "limit"), JNum(10)))
            \o "&offset=" \o Interp(Default(Get(a, "offset"), JNum(0)))

\* The method argument of makeRequest ("GET" by default).
Method(name) ==
    CASE name \in {"start_vps", "stop_vps", "restart_vps", "create_dns_record",
                   "create_email_account", "create_ssl_certificate",
                   "create_backup", "restore_backup"} -> "POST"
      [] name = "update_dns_record" -> "PUT"
      [] name \in {"delete_dns_record", "delete_email_account"} -> "DELETE"
      [] OTHER -> "GET"

\* The data argument of makeRequest (null by default).
Data(name, args) ==
    CASE Len(Destructured(name)) > 0 -> Obj(Rest(args, Range(Destructured(name))))
      [] name = "create_ssl_certificate" -> args
      [] name = "restore_backup" ->
            Obj([key \in {"resource_id"} |-> Get(args, "resource_id")])
      [] OTHER -> NullObj

\* The label of the text a tool method renders from the collaborator's answer.
Label(name) ==
    CASE name = "list_vps" -> "VPS instances: "
      [] name = "get_vps" -> "VPS details: "
      [] name = "start_vps" -> "VPS start result: "
      [] name = "stop_vps" -> "VPS stop result: "
      [] name = "restart_vps" -> "VPS restart result: "
      [] name = "get_vps_usage" -> "VPS usage statistics: "
      [] name = "list_domains" -> "Domains: "
      [] name = "get_domain" -> "Domain details: "
      [] name = "get_domain_dns" -> "DNS records: "
      [] name = "create_dns_record" -> "Created DNS record: "
      [] name = "update_dns_record" -> "Updated DNS record: "
      [] name = "list_hosting_accounts" -> "Hosting accounts: "
      [] name = "get_hosting_account" -> "Hosting account details: "
      [] name = "get_hosting_usage" -> "Hosting usage: "
      [] name = "list_email_accounts" -> "Email accounts: "
      [] name = "create_email_account" -> "Created email account: "
      [] name = "list_ssl_certificates" -> "SSL certificates: "
      [] name = "get_ssl_certificate" -> "SSL certificate details: "
      [] name = "create_ssl_certificate" -> "Created SSL certificate: "
      [] name = "list_backups" -> "Backups: "
      [] name = "create_backup" -> "Created backup: "
      [] name = "restore_backup" -> "Restore backup result: "
      [] name = "get_account_info" -> "Account information: "
      [] name = "get_invoices" -> "Invoices: "

\* { content: [ { type: "text", text } ] }
TextResult(text) == [content |-> << [type |-> "text", text |-> text] >>]

\* What a tool method returns once makeRequest has returned `json`.
Render(name, args, json) ==
    CASE name = "delete_dns_record" ->
            TextResult("Successfully deleted DNS record " \o Interp(Get(args, "record_id")))
      [] name = "delete_email_account" ->
            TextResult("Successfully deleted email account " \o Interp(Get(args, "email")))
      [] OTHER -> TextResult(Label(name) \o JSONstringify(json))

----------------------------------------------------------------------------
(* makeRequest: the one collaborator request of a tool call.               *)

BaseUrl == "https://api.hostinger.com"

\* MakeRequest that serializes a body for every method but GET, null included.
MakeRequestBodyUnlessGet(endpoint, method, data) ==
    [ url |-> BaseUrl \o endpoint,
      method |-> method,
      authorization |-> "Bearer " \o env.apiKey,
      hasBody |-> method # "GET",
      body |-> data ]

\* The part of makeRequest before `await fetch(url, options)`.
MakeRequest(endpoint, method, data) ==
    [ url |-> BaseUrl \o endpoint,
      method |-> method,
      authorization |-> "Bearer " \o env.apiKey,
      hasBody |-> data.k = "obj" /\ method \in {"POST", "PUT", "PATCH"},
      body |-> data ]

\* How the collaborator request may settle.
FetchOk(json) == [o |-> "ok", json |-> json]
FetchStatus(status, text) == [o |-> "status", status |-> status, text |-> text]
FetchNetworkError(message) == [o |-> "network", message |-> message]
FetchBadJson(message) == [o |-> "badjson", message |-> message]

\* The message of the Error makeRequest throws for a settled request that
\* failed ("" when response.json() returned).
MakeRequestError(outcome) ==
    CASE outcome.o = "ok" -> ""
      [] outcome.o = "status" ->
            "API request failed: " \o "HTTP " \o ToString(outcome.status) \o ": "
            \o outcome.text
      [] OTHER -> "API request failed: " \o outcome.message

----------------------------------------------------------------------------
(* handleCallTool / the CallToolRequestSchema handler.                     *)

Params(name, args) == [k |-> "obj", name |-> name, args |-> args]
NoParams == [k |-> "undef"]
NullParams == [k |-> "null"]

\* catch (error) { return { content: [{ type: "text", text: `Error: ${error.message}` }] } }
ErrorResult(message) == TextResult("Error: " \o message)

\* CallToolStart with the switch outside the try block: an unknown name and a
\* failed argument read escape the handler.
CallToolStartUnguarded(e, params) ==
    IF params.k # "obj"
    THEN [k |-> "throw",
          message |-> "Cannot destructure property 'name' of 'params' as it is "
                      \o (IF params.k = "undef" THEN "undefined" ELSE "null") \o "."]
    ELSE IF params.name.t # "str" \/ params.name.s \notin Cases(e)
    THEN [k |-> "throw", message |-> "Unknown tool: " \o Interp(params.name)]
    ELSE IF ArgumentError(params.name.s, params.args) # ""
    THEN [k |-> "throw", message |-> ArgumentError(params.name.s, params.args)]
    ELSE LET name == params.name.s
             a == IF name = "get_invoices" THEN InvoiceParams(params.args)
                  ELSE params.args
         IN [k |-> "fetch",
             fetch |-> MakeRequest(Endpoint(name, a), Method(name), Data(name, a))]

\* The handler up to its first suspension at the collaborator:
\*   "throw"  : it threw outside its try block,
\*   "result" : it returned without a collaborator request,
\*   "fetch"  : it awaits `fetch`.
CallToolStart(e, params) ==
    IF params.k # "obj"
    THEN [k |-> "throw",
          message |-> "Cannot destructure property 'name' of 'params' as it is "
                      \o (IF params.k = "undef" THEN "undefined" ELSE "null") \o "."]
    ELSE IF params.name.t # "str" \/ params.name.s \notin Cases(e)
    THEN [k |-> "result",
          result |-> ErrorResult("Unknown tool: " \o Interp(params.name))]
    ELSE IF ArgumentError(params.name.s, params.args) # ""
    THEN [k |-> "result",
          result |-> ErrorResult(ArgumentError(params.name.s, params.args))]
    ELSE LET name == params.name.s
             a == IF name = "get_invoices" THEN InvoiceParams(params.args)
                  ELSE params.args
         IN [k |-> "fetch",
             fetch |-> MakeRequest(Endpoint(name, a), Method(name), Data(name, a))]

\* CallToolFinish with delete methods that ignore how their request settled:
\* their text does not use the collaborator's answer.
CallToolFinishSwallowing(params, outcome) ==
    IF params.name.s \in {"delete_dns_record", "delete_email_account"}
    THEN Render(params.name.s, params.args, JsNull)
    ELSE IF MakeRequestError(outcome) # ""
    THEN ErrorResult(MakeRequestError(outcome))
    ELSE Render(params.name.s, params.args, outcome.json)

\* CallToolFinish with the call kept in a field of the shared server object:
\* a call that came in meanwhile has overwritten it.
CallToolFinishShared(params, outcome) ==
    LET others == {c.req.params : c \in {d \in calls : d.req.params # params}}
        mine == IF others = {} THEN params ELSE CHOOSE q \in others : TRUE
    IN IF MakeRequestError(outcome) # ""
       THEN ErrorResult(MakeRequestError(outcome))
       ELSE Render(mine.name.s, mine.args, outcome.json)

\* The handler from the settling of its collaborator request to its return.
CallToolFinish(params, outcome) ==
    IF MakeRequestError(outcome) # ""
    THEN ErrorResult(MakeRequestError(outcome))
    ELSE Render(params.name.s, params.args, outcome.json)

\* The listing read off an array the calls in flight have shifted.
ListToolsShifting(e) ==
    [tools |-> IF calls = {} THEN Catalog(e) ELSE Tail(Catalog(e))]

\* handleListTools
ListTools(e) == [tools |-> Catalog(e)]

----------------------------------------------------------------------------
(* JSON-RPC envelopes. A member whose value is undefined is not serialized. *)

Defined(v) == v.t # "undef"

ResultEnvelope(result, id) ==
    [ has |-> {"jsonrpc", "result"} \cup (IF Defined(id) THEN {"id"} ELSE {}),
      jsonrpc |-> "2.0", result |-> result, id |-> id ]

ErrorEnvelope(code, message, data, id) ==
    [ has |-> {"jsonrpc", "error"} \cup (IF Defined(id) THEN {"id"} ELSE {}),
      jsonrpc |-> "2.0",
      error |-> [code |-> code, message |-> message, data |-> data],
      id |-> id ]

InvalidRequest == -32600
MethodNotFound == -32601
InternalError == -32603

\* A message written to a response object or a transport.
\* on: 0 = the res object of the POST, i > 0 = session i; status: the HTTP
\* status of a POST response, 0 on a session.
Write(on, status, envelope) == [on |-> on, status |-> status, env |-> envelope]

----------------------------------------------------------------------------
(* POST /mcp of the express app.                                           *)

\* A request body as express.json() leaves it in req.body.
Body(jsonrpc, method, id, params) ==
    [k |-> "obj", jsonrpc |-> jsonrpc, method |-> method, id |-> id, params |-> params]

\* A body express.json() cannot parse: the middleware passes the error on and
\* the route handler never runs; express answers with its own error page.
MalformedBody == [k |-> "malformed"]
ExpressErrorPage == [has |-> {}, page |-> "SyntaxError"]

\* BadVersion that only looks for a missing member: if (!request.jsonrpc)
BadVersionMissingOnly(request) == ~Truthy(request.jsonrpc)

\* if (!request.jsonrpc || request.jsonrpc !== "2.0")
BadVersion(request) == ~Truthy(request.jsonrpc) \/ request.jsonrpc # JStr("2.0")

\* res.status(400).json({ error: { code: -32600, ... }, id: request.id || null })
InvalidRequestResponse(request) ==
    << Write(0, 400,
             ErrorEnvelope(InvalidRequest, "Invalid Request", JUndef,
                           OrElse(request.id, JNull))) >>

\* MethodNotFoundResponse with the id of the other error responses:
\* id: request.id || null
MethodNotFoundResponseOrNull(request) ==
    << Write(0, 400,
             ErrorEnvelope(MethodNotFound, "Method not found", JUndef,
                           OrElse(request.id, JNull))) >>

\* res.status(400).json({ error: { code: -32601, ... }, id: request.id })
MethodNotFoundResponse(request) ==
    << Write(0, 400,
             ErrorEnvelope(MethodNotFound, "Method not found", JUndef, request.id)) >>

\* res.json({ jsonrpc: "2.0", result: response, id: request.id })
ResultResponse(request, response) ==
    << Write(0, 200, ResultEnvelope(response, request.id)) >>

\* catch (error) { res.status(500).json({ error: { code: -32603, ..., data:
\* error.message }, id: req.body.id || null }) }
InternalErrorResponse(request, message) ==
    << Write(0, 500,
             ErrorEnvelope(InternalError, "Internal error", JStr(message),
                           OrElse(request.id, JNull))) >>

\* The route handler up to its first suspension at the collaborator: what it
\* has written to res, and whether a tool call is still awaited.
PostMcpStart(e, request) ==
    IF BadVersion(request)
    THEN [writes |-> InvalidRequestResponse(request), pending |-> FALSE]
    ELSE IF request.method = JStr("tools/list")
    THEN [writes |-> ResultResponse(request, ListTools(e)), pending |-> FALSE]
    ELSE IF request.method = JStr("tools/call")
    THEN LET start == CallToolStart(e, request.params)
         IN CASE start.k = "throw" ->
                    [writes |-> InternalErrorResponse(request, start.message),
                     pending |-> FALSE]
              [] start.k = "result" ->
                    [writes |-> ResultResponse(request, start.result),
                     pending |-> FALSE]
              [] start.k = "fetch" ->
                    [writes |-> << >>, pending |-> TRUE]
    ELSE [writes |-> MethodNotFoundResponse(request), pending |-> FALSE]

\* The route handler from the settling of the collaborator request on.
PostMcpFinish(request, outcome) ==
    ResultResponse(request, CallToolFinish(request.params, outcome))

----------------------------------------------------------------------------
(* The server object and its transports (this.server, an SDK Server).      *)

NoTxn == [chan |-> -1]
NoOutcome == [o |-> "none"]

\* One finished exchange: the request, where it was received (0 = POST /mcp,
\* i > 0 = session i), everything written in answer to it, the number of
\* collaborator requests made for it and how the last of them settled.
Txn(chan, req, writes, fetches, outcome) ==
    [chan |-> chan, req |-> req, writes |-> writes, fetches |-> fetches,
     outcome |-> outcome]

\* A tool call suspended at `await fetch`: the request, the session it came
\* in on, the value of this.server's transport at that moment, the number
\* of collaborator requests it has issued and the request it passed to fetch.
Call(chan, captured, req) ==
    [chan |-> chan, captured |-> captured, req |-> req, fetches |-> 1,
     fetch |-> CallToolStart(entry, req.params).fetch]

\* The answer the SDK sends for a request whose handler returned `result`.
SdkResult(req, result) == ResultEnvelope(result, req.id)

\* The answer the SDK sends for a request whose handler threw.
SdkError(req, message) == ErrorEnvelope(InternalError, message, JUndef, req.id)

\* The transports a response to a suspended call may be sent on: the SDK
\* sends on the server's transport, read either when the request came in or
\* when the handler returns, depending on its version.
SendTargets(call) == {call.captured, transport}

\* process.env
Envs == [apiKey : {"", "secret"}, mcpMode : {"stdio", "http"}]

\* No tools/list has been answered yet.
NoList == [first |-> << >>, again |-> FALSE]

Init ==
    /\ entry \in {"index", "server"}
    /\ env \in Envs
    /\ phase = "start"
    /\ sessions = << >>
    /\ transport = 0
    /\ calls = {}
    /\ last = NoTxn
    /\ handlers = {}
    /\ routes = {}
    /\ listed = NoList

\* setupToolHandlers: the two setRequestHandler calls.
ToolHandlers == {"tools/list", "tools/call"}

\* setupHealthCheckServer (index.js) / setupExpressServer (HTTP server): the
\* endpoints that listen once the constructor has run.
Routes(e) ==
    IF e = "index" THEN {"GET /health", "GET /"}
    ELSE {"GET /health", "GET /", "GET /sse", "POST /mcp"}

\* Construct with the credential checked after the setup calls.
ConstructLateCheck ==
    /\ phase = "start"
    /\ phase' = IF env.apiKey = "" THEN "failed" ELSE "constructed"
    /\ handlers' = ToolHandlers
    /\ routes' = Routes(entry)
    /\ last' = NoTxn
    /\ UNCHANGED <<entry, env, sessions, transport, calls, listed>>

\* new HostingerMCPServer(): throws without HOSTINGER_API_KEY, else registers
\* the handlers and starts the HTTP listener.
Construct ==
    /\ phase = "start"
    /\ IF env.apiKey = ""
       THEN /\ phase' = "failed"
            /\ UNCHANGED <<handlers, routes>>
       ELSE /\ phase' = "constructed"
            /\ handlers' = ToolHandlers
            /\ routes' = Routes(entry)
    /\ last' = NoTxn
    /\ UNCHANGED <<entry, env, sessions, transport, calls, listed>>

\* this.server.connect(transport): the server's transport becomes the new one.
Connect(kind) ==
    /\ sessions' = Append(sessions, kind)
    /\ transport' = Len(sessions) + 1

\* server.run(): index.js always connects stdio, the HTTP server only when
\* MCP_MODE is "stdio".
Run ==
    /\ phase = "constructed"
    /\ phase' = "running"
    /\ IF entry = "index" \/ env.mcpMode = "stdio"
       THEN Connect("stdio")
       ELSE UNCHANGED <<sessions, transport>>
    /\ last' = NoTxn
    /\ UNCHANGED <<entry, env, calls, handlers, routes, listed>>

\* GET /sse: a new SSEServerTransport is connected to the shared server.
Sse ==
    /\ phase = "running"
    /\ "GET /sse" \in routes
    /\ Len(sessions) < MaxSessions
    /\ Connect("sse")
    /\ last' = NoTxn
    /\ UNCHANGED <<entry, env, phase, calls, handlers, routes, listed>>

\* The history of tools/list once the exchange `txn` has been answered.
Listed(txn) ==
    IF /\ txn.req.k = "obj"
       /\ txn.req.method = JStr("tools/list")
       /\ Len(txn.writes) = 1
       /\ "result" \in txn.writes[1].env.has
       /\ "tools" \in DOMAIN txn.writes[1].env.result
    THEN IF listed = NoList
         THEN [first |-> txn.writes[1].env.result.tools, again |-> FALSE]
         ELSE [listed EXCEPT !.again = TRUE]
    ELSE listed

\* POST /mcp with the given body, up to the response or to the suspension of
\* the handler at the collaborator.
PostMcp(body) ==
    /\ phase = "running"
    /\ "POST /mcp" \in routes
    /\ IF body.k = "malformed"
       THEN /\ last' = Txn(0, body, << Write(0, 400, ExpressErrorPage) >>, 0, NoOutcome)
            /\ UNCHANGED calls
       ELSE LET start == PostMcpStart(entry, body)
            IN IF start.pending
               THEN /\ Call(0, 0, body) \notin calls
                    /\ calls' = calls \cup {Call(0, 0, body)}
                    /\ last' = NoTxn
               ELSE /\ last' = Txn(0, body, start.writes, 0, NoOutcome)
                    /\ UNCHANGED calls
    /\ listed' = IF last' = NoTxn THEN listed ELSE Listed(last')
    /\ UNCHANGED <<entry, env, phase, sessions, transport, handlers, routes>>

\* A tools/list or tools/call request read from the stdio transport s: the
\* SDK runs the registered handler and sends its result, or its error, on
\* the server's transport.
StdioRequest(s, msg) ==
    /\ phase = "running"
    /\ s \in 1..Len(sessions)
    /\ sessions[s] = "stdio"
    /\ msg.method.s \in handlers
    /\ \A c \in calls : c.chan = s => c.req.id # msg.id
    /\ IF msg.method = JStr("tools/list")
       THEN /\ last' = Txn(s, msg, << Write(transport, 0, SdkResult(msg, ListTools(entry))) >>,
                           0, NoOutcome)
            /\ UNCHANGED calls
       ELSE LET start == CallToolStart(entry, msg.params)
            IN CASE start.k = "fetch" ->
                      /\ calls' = calls \cup {Call(s, transport, msg)}
                      /\ last' = NoTxn
                 [] start.k = "result" ->
                      /\ last' = Txn(s, msg,
                                     << Write(transport, 0, SdkResult(msg, start.result)) >>,
                                     0, NoOutcome)
                      /\ UNCHANGED calls
                 [] start.k = "throw" ->
                      /\ last' = Txn(s, msg,
                                     << Write(transport, 0, SdkError(msg, start.message)) >>,
                                     0, NoOutcome)
                      /\ UNCHANGED calls
    /\ listed' = IF last' = NoTxn THEN listed ELSE Listed(last')
    /\ UNCHANGED <<entry, env, phase, sessions, transport, handlers, routes>>

\* Respond behind a barrier: a call is answered only when no call received
\* on the same channel with a smaller id is still awaiting the collaborator.
RespondInOrder(call, outcome) ==
    /\ \A d \in calls : d.chan = call.chan => d.req.id.n >= call.req.id.n
    /\ calls' = calls \ {call}
    /\ IF call.chan = 0
       THEN last' = Txn(0, call.req, PostMcpFinish(call.req, outcome), call.fetches, outcome)
       ELSE \E target \in SendTargets(call) :
                last' = Txn(call.chan, call.req,
                            << Write(target, 0,
                                     SdkResult(call.req,
                                               CallToolFinish(call.req.params, outcome))) >>,
                            call.fetches, outcome)

\* The handler of a suspended call returns and the response is written.
Respond(call, outcome) ==
    /\ calls' = calls \ {call}
    /\ IF call.chan = 0
       THEN last' = Txn(0, call.req, PostMcpFinish(call.req, outcome), call.fetches, outcome)
       ELSE \E target \in SendTargets(call) :
                last' = Txn(call.chan, call.req,
                            << Write(target, 0,
                                     SdkResult(call.req,
                                               CallToolFinish(call.req.params, outcome))) >>,
                            call.fetches, outcome)

\* FetchSettles with a makeRequest that issues the request once more when the
\* first one fails.
FetchSettlesRetrying(call, outcome) ==
    /\ call \in calls
    /\ IF outcome.o # "ok" /\ call.fetches = 1
       THEN /\ calls' = (calls \ {call}) \cup {[call EXCEPT !.fetches = 2]}
            /\ last' = NoTxn
       ELSE Respond(call, outcome)
    /\ UNCHANGED <<entry, env, phase, sessions, transport, handlers, routes, listed>>

\* The collaborator request of a suspended call settles: makeRequest returns
\* or throws, the handler returns and the response is written.
FetchSettles(call, outcome) ==
    /\ call \in calls
    /\ Respond(call, outcome)
    /\ UNCHANGED <<entry, env, phase, sessions, transport, handlers, routes, listed>>

----------------------------------------------------------------------------
(* The requests and collaborator answers the model draws from.             *)

\* The argument keys a caller may supply for a tool.
ArgKeys(name) ==
    Range(PropsRead(name)) \cup Range(Destructured(name)) \cup
    (CASE name = "create_dns_record" -> {"type"}
       [] name = "update_dns_record" -> {"content"}
       [] name = "create_email_account" -> {"email"}
       [] name = "create_ssl_certificate" -> {"domain_id", "type"}
       [] name = "create_backup" -> {"description"}
       [] name = "get_invoices" -> {"limit", "offset"}
       [] OTHER -> {})

ArgValue(key) ==
    CASE key = "limit" -> JNum(5)
      [] key = "offset" -> JNum(2)
      [] key = "period" -> JStr("7d")
      [] key = "resource_type" -> JStr("vps")
      [] key = "type" -> JStr("A")
      [] OTHER -> JStr(key \o "-1")

\* Arguments that give an optional argument a falsy value: null, 0 or "".
FalsyArgs(name) ==
    CASE name = "get_vps_usage" ->
            {Obj([key \in {"vps_id", "period"} |->
                     IF key = "period" THEN v ELSE ArgValue(key)]) : v \in {JNull, JStr("")}}
      [] name = "get_invoices" ->
            { Obj([key \in {"limit", "offset"} |->
                     IF key = "limit" THEN JNum(0) ELSE JNull]),
              Obj([key \in {"limit", "offset"} |->
                     IF key = "limit" THEN JStr("") ELSE JNum(0)]) }
      [] OTHER -> {}

\* Every arguments value: missing, null, an object with any subset of the
\* tool's keys, or one with falsy values.
ArgSets(name) ==
    {NoObj, NullObj} \cup
    {Obj([key \in K |-> ArgValue(key)]) : K \in SUBSET ArgKeys(name)} \cup
    FalsyArgs(name)

\* The arguments object with every key of the tool.
FullArgs(name) == Obj([key \in ArgKeys(name) |-> ArgValue(key)])

Ids == {JUndef, JNull, JStr(""), JStr("a")} \cup {JNum(i) : i \in 0..MaxId}

\* The ids of a JSON-RPC request (a message without one is a notification).
RequestIds == {JStr(""), JStr("a")} \cup {JNum(i) : i \in 0..MaxId}

AllNames == Range(IndexTools) \cup {"bogus", ""}

AllParams ==
    {NoParams, NullParams}
    \cup {Params(JUndef, a) : a \in {NoObj, Obj(EmptyObj)}}
    \cup UNION {{Params(JStr(n), a) : a \in ArgSets(n)} : n \in AllNames}

\* Every body of a POST /mcp.
AllBodies ==
    {MalformedBody} \cup
    {Body(j, m, i, p) :
        j \in {JUndef, JStr("2.0"), JStr("1.0"), JNum(2)},
        m \in {JUndef, JStr("tools/list"), JStr("tools/call"), JStr("nonexistent")},
        i \in Ids,
        p \in AllParams}

\* Every tools/list and tools/call request that passes the SDK's request
\* schema: a string name and an arguments object or none.
AllMessages ==
    {Body(JStr("2.0"), JStr("tools/list"), i, NoParams) : i \in RequestIds}
    \cup UNION {{Body(JStr("2.0"), JStr("tools/call"), i, Params(JStr(n), a)) :
                    i \in RequestIds, a \in ArgSets(n) \ {NullObj}} : n \in AllNames}

\* The strings of the collaborator's answers: plain ones, ones that read like
\* other JSON values and ones with the characters JSON.stringify escapes.
JsonStrings ==
    { << >>, <<"x">>, <<"y">>, <<"1">>, <<"n", "u", "l", "l">>, <<"[", "]">>,
      <<"\"">>, <<"\\">>, <<"\\", "\"">>, <<"\n">>, <<"\\", "n">>,
      <<"x", "\"", ",", "\n", " ", " ", "\"", "y">> }

JsonLeaves ==
    {JsNull, JsBool(TRUE), JsBool(FALSE), JsNum(0), JsNum(1)}
    \cup {JsStr(x) : x \in JsonStrings}

JsonKeys == {<<"i", "d">>, <<"x">>, <<"x", "\"">>}

\* Arrays and objects of leaves, and one more level of nesting around them.
JsonFlat ==
    {JsArr(<< >>), JsObj(<< >>)}
    \cup {JsArr(<<v>>) : v \in JsonLeaves}
    \cup {JsArr(<<v, w>>) : v, w \in {JsNum(1), JsStr(<<"x">>), JsStr(<<"y">>)}}
    \cup {JsObj(<<[key |-> q, val |-> v]>>) : q \in JsonKeys, v \in {JsNum(1), JsStr(<<"x">>)}}
    \cup {JsObj(<<[key |-> q, val |-> JsNum(0)], [key |-> r, val |-> JsNum(1)]>>) :
            q, r \in {<<"i", "d">>, <<"x">>}}

JsonNested ==
    {JsArr(<<v>>) : v \in {JsArr(<< >>), JsObj(<< >>), JsArr(<<JsNum(1)>>),
                           JsObj(<<[key |-> <<"i", "d">>, val |-> JsNum(1)]>>)}}
    \cup {JsObj(<<[key |-> <<"x">>, val |-> v]>>) :
            v \in {JsArr(<< >>), JsObj(<< >>), JsArr(<<JsNum(1)>>),
                   JsObj(<<[key |-> <<"x">>, val |-> JsNum(1)]>>)}}

\* What response.json() may return.
JsonValues == JsonLeaves \cup JsonFlat \cup JsonNested

\* How a request may settle, with a few of the JSON values.
PlainOutcomes ==
    { FetchOk(JsObj(<< >>)),
      FetchOk(JsArr(<< JsObj(<< [key |-> <<"i", "d">>, val |-> JsNum(1)] >>) >>)),
      FetchOk(JsNull),
      FetchStatus(404, "Not Found"),
      FetchStatus(500, ""),
      FetchNetworkError("fetch failed"),
      FetchBadJson("Unexpected end of JSON input") }

AllOutcomes == PlainOutcomes \cup { FetchOk(v) : v \in JsonValues }

\* The answers drawn for a call: every one for list_domains, whose text is
\* compared value by value, the plain ones for the other tools, which render
\* the answer with the same JSON.stringify.
OutcomesOf(call) ==
    IF call.req.params.name.s = "list_domains" THEN AllOutcomes ELSE PlainOutcomes

\* The requests of the runs with several calls in flight.
FewNames == {"list_domains", "get_vps", "bogus"}
FewIds == {JNum(i) : i \in 0..MaxId}

FewParams ==
    {Params(JStr(n), Obj(EmptyObj)) : n \in FewNames}
    \cup {Params(JStr("get_vps"), NoObj)}

FewBodies ==
    {Body(JStr("2.0"), JStr("tools/call"), i, p) : i \in FewIds, p \in FewParams}

FewLists == {Body(JStr("2.0"), JStr("tools/list"), i, NoParams) : i \in FewIds}

FewMessages == FewLists \cup FewBodies

FewOutcomes == { FetchOk(JsObj(<< >>)), FetchStatus(500, "") }

----------------------------------------------------------------------------
(* Spec: the process with several sessions and calls in flight.            *)

Next ==
    \/ Construct
    \/ Run
    \/ Sse
    \/ Cardinality(calls) < MaxInFlight
         /\ \E body \in FewBodies \cup FewLists : PostMcp(body)
    \/ Cardinality(calls) < MaxInFlight
         /\ \E s \in 1..Len(sessions), msg \in FewMessages : StdioRequest(s, msg)
    \/ \E call \in calls, outcome \in FewOutcomes : FetchSettles(call, outcome)

Spec == Init /\ [][Next]_vars

(* SpecOne: one exchange at a time, over every request and every answer.   *)

\* The client takes the response off the wire before it sends again.
Read ==
    /\ last # NoTxn
    /\ last' = NoTxn
    /\ UNCHANGED <<entry, env, phase, sessions, transport, calls, handlers, routes, listed>>

Quiet == calls = {} /\ last = NoTxn

NextOne ==
    \/ Construct
    \/ Run
    \/ Read
    \/ Quiet /\ \E body \in AllBodies : PostMcp(body)
    \/ Quiet /\ \E msg \in AllMessages : StdioRequest(1, msg)
    \/ \E call \in calls : \E outcome \in OutcomesOf(call) : FetchSettles(call, outcome)

SpecOne == Init /\ [][NextOne]_vars

----------------------------------------------------------------------------
(* Vocabulary of the properties: the exchange that has just been answered. *)

Answered == last # NoTxn
ViaPost == Answered /\ last.chan = 0
ViaSession == Answered /\ last.chan > 0

\* The request is a well-formed JSON-RPC object of the given method.
IsRequest(req, method) ==
    req.k = "obj" /\ req.jsonrpc = JStr("2.0") /\ req.method = JStr(method)

\* The request is a tools/call with a params object naming a tool (a string).
NamesTool(req) ==
    IsRequest(req, "tools/call") /\ req.params.k = "obj" /\ req.params.name.t = "str"

ResultShaped(envelope) == "result" \in envelope.has /\ "error" \notin envelope.has
ErrorShaped(envelope) == "error" \in envelope.has /\ "result" \notin envelope.has

\* Exactly one message was written and it is a result with this one text block.
AnsweredWithText(text) ==
    /\ Len(last.writes) = 1
    /\ ResultShaped(last.writes[1].env)
    /\ last.writes[1].env.result = [content |-> << [type |-> "text", text |-> text] >>]

\* Exactly one message was written and it is an error with this status and code.
AnsweredWithError(status, code) ==
    /\ Len(last.writes) = 1
    /\ last.writes[1].status = status
    /\ ErrorShaped(last.writes[1].env)
    /\ last.writes[1].env.error.code = code

----------------------------------------------------------------------------
\* C1: a tools/call naming a tool that is not in the catalog, with arguments
\* {}, is answered with exactly one result-shaped envelope whose single text
\* block is "Error: Unknown tool: " followed by the name; it is never left
\* unanswered and never answered with a JSON-RPC error.
C1_UnknownToolIsNarrated ==
    (/\ Answered
     /\ NamesTool(last.req)
     /\ last.req.params.name.s \notin Range(Catalog(entry))
     /\ last.req.params.args = Obj(EmptyObj))
    => AnsweredWithText("Error: Unknown tool: " \o last.req.params.name.s)

\* get_invoices is in the catalog of index.js only: the HTTP server narrates it
\* as unknown.
C1_Witness ==
    /\ ViaPost
    /\ NamesTool(last.req)
    /\ last.req.params.name.s = "get_invoices"
    /\ last.req.params.args = Obj(EmptyObj)
    /\ AnsweredWithText("Error: Unknown tool: get_invoices")

\* The failure a catalogued tool call ran into: the TypeError of reading its
\* arguments when no collaborator request was made, else the failure of the
\* collaborator request ("" when there was none).
HandlerFailure ==
    IF last.fetches = 0
    THEN ArgumentError(last.req.params.name.s, last.req.params.args)
    ELSE MakeRequestError(last.outcome)

\* C2: whenever the handler of a catalogued tool fails (reading a property of
\* a missing arguments object, a non-2xx status, a network failure or an
\* unparsable response body), the answer is exactly one result-shaped
\* envelope with the single text block "Error: " + the failure's message,
\* never an error-shaped one.
C2_HandlerFailureIsResult ==
    (/\ Answered
     /\ NamesTool(last.req)
     /\ last.req.params.name.s \in Range(Catalog(entry))
     /\ HandlerFailure # "")
    => AnsweredWithText("Error: " \o HandlerFailure)

C2_Witness ==
    /\ Answered
    /\ NamesTool(last.req)
    /\ last.req.params.name.s = "get_vps"
    /\ last.req.params.args = NoObj
    /\ AnsweredWithText("Error: Cannot read properties of undefined (reading 'vps_id')")

\* C3: every tools/call on POST /mcp, also one whose params lack `arguments`
\* or `name` or that has no params at all, is answered with HTTP 200 and a
\* result-shaped envelope, never with a JSON-RPC error object.
C3_ToolFaultsAreResults ==
    (ViaPost /\ IsRequest(last.req, "tools/call"))
    => /\ Len(last.writes) = 1
       /\ last.writes[1].status = 200
       /\ ResultShaped(last.writes[1].env)

\* C4: a POST /mcp whose jsonrpc member is missing or is not "2.0" is answered
\* with HTTP 400 and an error envelope of code -32600, whatever its method
\* and params.
C4_BadVersionIsInvalidRequest ==
    (ViaPost /\ last.req.k = "obj" /\ last.req.jsonrpc # JStr("2.0"))
    => AnsweredWithError(400, -32600)

C4_Witness ==
    /\ ViaPost
    /\ last.req.k = "obj"
    /\ last.req.jsonrpc = JStr("1.0")
    /\ last.req.method = JStr("tools/list")
    /\ last.req.id = JNum(1)
    /\ AnsweredWithError(400, -32600)

\* C5: a POST /mcp with jsonrpc "2.0" whose method is neither tools/list nor
\* tools/call is answered with HTTP 400 and an error envelope of code -32601
\* that carries the id of the request.
C5_UnknownMethodIsMethodNotFound ==
    (/\ ViaPost
     /\ last.req.k = "obj"
     /\ last.req.jsonrpc = JStr("2.0")
     /\ last.req.method \notin {JStr("tools/list"), JStr("tools/call")})
    => /\ AnsweredWithError(400, -32601)
       /\ last.writes[1].env.id = last.req.id
       /\ ("id" \in last.writes[1].env.has) = (last.req.id # JUndef)

C5_Witness ==
    /\ ViaPost
    /\ last.req.k = "obj"
    /\ last.req.jsonrpc = JStr("2.0")
    /\ last.req.method = JStr("nonexistent")
    /\ last.req.id = JNum(0)
    /\ AnsweredWithError(400, -32601)
    /\ last.writes[1].env.id = JNum(0)

\* The POST /mcp ran into an exception: the body could not be parsed, or the
\* tools/call had no params object to take `name` from.
RaisedException ==
    \/ last.req.k = "malformed"
    \/ IsRequest(last.req, "tools/call") /\ last.req.params.k # "obj"

\* C6: every exception raised while POST /mcp handles a request, a malformed
\* body included, is answered with HTTP 500 and an error envelope of code
\* -32603 whose data is the exception's message.
C6_ExceptionsAreInternalErrors ==
    (ViaPost /\ RaisedException)
    => /\ AnsweredWithError(500, -32603)
       /\ last.writes[1].env.error.data.t = "str"

\* C7: every envelope POST /mcp writes carries the id of the request verbatim,
\* for every string (the empty one too), every number (0 too) and null.
C7_IdIsEchoed ==
    (ViaPost /\ last.req.k = "obj" /\ last.req.id # JUndef)
    => \A i \in 1..Len(last.writes) :
          /\ "id" \in last.writes[i].env.has
          /\ last.writes[i].env.id = last.req.id

\* C8: every POST /mcp is answered with exactly one JSON-RPC envelope, which
\* holds exactly one of result and error.
C8_ExactlyOneEnvelope ==
    ViaPost
    => /\ Len(last.writes) = 1
       /\ "jsonrpc" \in last.writes[1].env.has
       /\ ("result" \in last.writes[1].env.has) # ("error" \in last.writes[1].env.has)

\* What the handler of the answered call owes its own caller: the rendering
\* of its own collaborator answer, or the narration of its own failure.
OwnResult ==
    IF last.outcome.o = "ok"
    THEN Render(last.req.params.name.s, last.req.params.args, last.outcome.json)
    ELSE TextResult("Error: " \o MakeRequestError(last.outcome))

\* C9: a tools/call received on the stdio transport whose collaborator request
\* has settled is answered with exactly one response, which carries its own
\* id and the result of its own collaborator answer, whatever other calls
\* with other ids are in flight and in whatever order they settle; the
\* response carries the id of no call that is still in flight, and in
\* index.js, whose only transport is stdio, it is written on that transport.
C9_StdioResponsesMatchTheirRequest ==
    (ViaSession /\ IsRequest(last.req, "tools/call") /\ last.fetches = 1)
    => /\ Len(last.writes) = 1
       /\ ResultShaped(last.writes[1].env)
       /\ "id" \in last.writes[1].env.has
       /\ last.writes[1].env.id = last.req.id
       /\ last.writes[1].env.result = OwnResult
       /\ (entry = "index" => last.writes[1].on = last.chan)
       /\ \A c \in calls : c.chan = last.chan => c.req.id # last.writes[1].env.id

\* The call received second (id 1 here) is answered while the call of another
\* tool with id 0 is still awaiting the collaborator on the same transport.
C9_Witness ==
    /\ ViaSession
    /\ last.fetches = 1
    /\ last.req.id = JNum(1)
    /\ last.req.params.name.s = "get_vps"
    /\ last.writes[1].env.id = JNum(1)
    /\ \E c \in calls :
          /\ c.chan = last.chan
          /\ c.req.id = JNum(0)
          /\ c.req.params.name.s = "list_domains"

\* C10: with several sessions connected to the shared server, every response
\* is written on the session that received its request.
C10_ResponsesStayOnTheirSession ==
    Answered => \A i \in 1..Len(last.writes) : last.writes[i].on = last.chan

\* The transport mode MCP_MODE selects for the HTTP server; index.js knows
\* only stdio.
SelectedMode == IF entry = "index" THEN "stdio" ELSE env.mcpMode

\* A stdio transport is connected to the server.
StdioConnected == \E s \in 1..Len(sessions) : sessions[s] = "stdio"

\* One of the HTTP protocol endpoints is listening.
ProtocolEndpointListening == routes \cap {"POST /mcp", "GET /sse"} # {}

\* C11: a run has exactly one protocol transport mode: with stdio selected no
\* HTTP/SSE protocol endpoint (POST /mcp, GET /sse) listens, and with HTTP
\* selected no stdio transport is connected.
C11_OneTransportMode ==
    /\ (SelectedMode = "stdio" /\ StdioConnected) => ~ProtocolEndpointListening
    /\ (SelectedMode = "http" /\ ProtocolEndpointListening) => ~StdioConnected

\* C12: without HOSTINGER_API_KEY the construction fails with no request
\* handler registered, no HTTP endpoint listening and no stdio transport
\* connected, and no request is served in that run.
C12_NoKeyNoServer ==
    env.apiKey = ""
    => /\ phase \in {"start", "failed"}
       /\ handlers = {}
       /\ routes = {}
       /\ sessions = << >>
       /\ calls = {}
       /\ last = NoTxn
       /\ listed = NoList

\* The constructor has thrown for want of the credential.
C12_Witness == env.apiKey = "" /\ phase = "failed"

\* inputSchema.required of the tool's descriptor (the same lists in both
\* catalogs); empty for the tools that declare none.
Required(name) ==
    CASE name \in {"get_vps", "start_vps", "stop_vps", "restart_vps", "get_vps_usage"} ->
            {"vps_id"}
      [] name \in {"get_domain", "get_domain_dns", "list_email_accounts"} -> {"domain_id"}
      [] name = "create_dns_record" -> {"domain_id", "type", "name", "content"}
      [] name \in {"update_dns_record", "delete_dns_record"} -> {"domain_id", "record_id"}
      [] name \in {"get_hosting_account", "get_hosting_usage"} -> {"account_id"}
      [] name = "create_email_account" -> {"domain_id", "email", "password"}
      [] name = "delete_email_account" -> {"domain_id", "email"}
      [] name = "get_ssl_certificate" -> {"certificate_id"}
      [] name = "create_ssl_certificate" -> {"domain_id", "type"}
      [] name \in {"list_backups", "create_backup"} -> {"resource_id", "resource_type"}
      [] name = "restore_backup" -> {"backup_id", "resource_id"}
      [] OTHER -> {}

\* The tools/call `req` names a catalogued tool and leaves out an argument
\* its schema requires.
OmitsRequired(req) ==
    /\ NamesTool(req)
    /\ req.params.name.s \in Range(Catalog(entry))
    /\ Required(req.params.name.s) # {}
    /\ \/ req.params.args.k # "obj"
       \/ \E key \in Required(req.params.name.s) : Get(req.params.args, key) = JUndef

\* C13: a tools/call that omits an argument its tool's schema requires issues
\* no downstream HTTP request: it is never found awaiting the collaborator and
\* it is answered with zero requests made.
C13_MissingArgumentMakesNoRequest ==
    /\ \A c \in calls : ~OmitsRequired(c.req)
    /\ (Answered /\ OmitsRequired(last.req)) => last.fetches = 0

\* C14: in each entry point the descriptors of tools/list and the handlers of
\* tools/call correspond one to one: no two descriptors share a name, a call
\* naming a catalogued tool reaches that tool's handler and never the
\* unknown-tool branch, and a call naming anything else reaches no handler and
\* makes no collaborator request.
C14_CatalogMatchesHandlers ==
    /\ \A i, j \in 1..Len(Catalog(entry)) :
          Catalog(entry)[i] = Catalog(entry)[j] => i = j
    /\ \A c \in calls : c.req.params.name.s \in Range(Catalog(entry))
    /\ (Answered /\ NamesTool(last.req))
       => /\ AnsweredWithText("Error: Unknown tool: " \o last.req.params.name.s)
             <=> last.req.params.name.s \notin Range(Catalog(entry))
          /\ last.fetches = 1 => last.req.params.name.s \in Range(Catalog(entry))

\* The last tool of the catalog of index.js has been called and its handler
\* has made its collaborator request.
C14_Witness ==
    /\ Answered
    /\ entry = "index"
    /\ NamesTool(last.req)
    /\ last.req.params.name.s = "get_invoices"
    /\ last.fetches = 1
    /\ last.outcome.o = "ok"

\* README, "Available Tools": the tools the documentation promises.
DocumentedTools ==
    { "list_vps", "get_vps", "start_vps", "stop_vps", "restart_vps", "get_vps_usage",
      "list_domains", "get_domain", "get_domain_dns",
      "create_dns_record", "update_dns_record", "delete_dns_record",
      "list_hosting_accounts", "get_hosting_account", "get_hosting_usage",
      "list_email_accounts", "create_email_account", "delete_email_account",
      "list_ssl_certificates", "get_ssl_certificate", "create_ssl_certificate",
      "list_backups", "create_backup", "restore_backup",
      "get_account_info", "get_invoices" }

\* C15: whichever entry point and transport serves it, tools/list advertises
\* exactly the 26 documented tools and a tools/call naming any of them is
\* dispatched to its handler, never narrated as an unknown tool.
C15_SameToolsEverywhere ==
    /\ (/\ Answered
        /\ IsRequest(last.req, "tools/list")
        /\ Len(last.writes) = 1
        /\ ResultShaped(last.writes[1].env))
       => Range(last.writes[1].env.result.tools) = DocumentedTools
    /\ (/\ Answered
        /\ NamesTool(last.req)
        /\ last.req.params.name.s \in DocumentedTools)
       => ~AnsweredWithText("Error: Unknown tool: " \o last.req.params.name.s)

\* A tools/list has just been answered with a result.
ListAnswered ==
    /\ Answered
    /\ IsRequest(last.req, "tools/list")
    /\ Len(last.writes) = 1
    /\ ResultShaped(last.writes[1].env)

\* C16: every tools/list of a run returns the descriptor sequence the first
\* one returned, element for element, whatever lists and calls were answered
\* in between and whatever calls are in flight, and the sequence has no two
\* descriptors of one name.
C16_ListIsStable ==
    ListAnswered
    => /\ last.writes[1].env.result.tools = listed.first
       /\ \A i, j \in 1..Len(listed.first) : listed.first[i] = listed.first[j] => i = j

\* A tools/list answered again, while a call is awaiting the collaborator.
C16_Witness == ListAnswered /\ listed.again /\ calls # {}

AloneWrites(chan, req, outcome) ==
    IF chan = 0
    THEN IF req.k = "malformed" THEN << Write(0, 400, ExpressErrorPage) >>
         ELSE IF outcome = NoOutcome THEN PostMcpStart(entry, req).writes
         ELSE PostMcpFinish(req, outcome)
    ELSE IF req.method = JStr("tools/list")
         THEN << Write(chan, 0, SdkResult(req, ListTools(entry))) >>
         ELSE IF outcome # NoOutcome
         THEN << Write(chan, 0, SdkResult(req, CallToolFinish(req.params, outcome))) >>
         ELSE LET start == CallToolStart(entry, req.params)
              IN IF start.k = "result"
                 THEN << Write(chan, 0, SdkResult(req, start.result)) >>
                 ELSE << Write(chan, 0, SdkError(req, start.message)) >>

\* C19: the response to a request is the one the same request with the same
\* collaborator answer gets in a run without any other request: the POST,
\* SSE and stdio requests handled before or during it change nothing it
\* depends on.
C19_AnswerDependsOnOwnRequestOnly ==
    Answered => last.writes = AloneWrites(last.chan, last.req, last.outcome)

\* A tools/call naming a tool of the catalog has just been answered.
CataloguedCallAnswered ==
    /\ Answered
    /\ NamesTool(last.req)
    /\ last.req.params.name.s \in Range(Catalog(entry))

\* C20 as stated: every tools/call for a catalogued tool has issued exactly
\* one downstream request, settled, by the time it is answered.
C20_ExactlyOneRequest ==
    CataloguedCallAnswered => last.fetches = 1 /\ last.outcome # NoOutcome

\* C20, amended: a tools/call for a catalogued tool issues at most one
\* downstream request: exactly one, succeeding or failing, when the handler
\* gets as far as makeRequest, and none when reading the arguments throws
\* first; a call awaiting the collaborator has issued one request and no more,
\* and a call that issued its request is answered only once it has settled.
C20_OneRequestUnlessArgumentsThrow ==
    /\ \A c \in calls : c.fetches = 1
    /\ CataloguedCallAnswered
       => /\ last.fetches =
                (IF ArgumentError(last.req.params.name.s, last.req.params.args) = ""
                 THEN 1 ELSE 0)
          /\ last.fetches = 1 <=> last.outcome # NoOutcome

\* A catalogued call is answered after its one request failed with a status.
C20_Witness ==
    /\ CataloguedCallAnswered
    /\ last.outcome.o = "status"
    /\ last.fetches = 1
    /\ Len(last.writes) = 1

\* The request is a tools/call that names a tool of the catalog.
CallsCataloguedTool(req) ==
    NamesTool(req) /\ req.params.name.s \in Range(Catalog(entry))

\* C21: only a tools/call naming a catalogued tool ever makes a downstream
\* request: no other request is found awaiting the collaborator, every other
\* request (tools/list, one rejected as InvalidRequest or MethodNotFound, a
\* tools/call naming an unknown tool) is answered with zero requests made, and
\* tools/list is answered with the catalog whatever the collaborator does.
C21_OnlyCataloguedCallsReachTheCollaborator ==
    /\ \A c \in calls : CallsCataloguedTool(c.req)
    /\ (Answered /\ ~CallsCataloguedTool(last.req))
       => last.fetches = 0 /\ last.outcome = NoOutcome
    /\ (Answered /\ IsRequest(last.req, "tools/list"))
       => /\ Len(last.writes) = 1
          /\ ResultShaped(last.writes[1].env)
          /\ last.writes[1].env.result = [tools |-> Catalog(entry)]

\* A tools/call naming a catalogued tool but carrying the wrong jsonrpc
\* literal has been rejected as InvalidRequest without a downstream request.
C21_Witness ==
    /\ ViaPost
    /\ last.req.k = "obj"
    /\ last.req.jsonrpc = JStr("1.0")
    /\ last.req.method = JStr("tools/call")
    /\ last.req.params.k = "obj"
    /\ last.req.params.name = JStr("list_domains")
    /\ AnsweredWithError(400, InvalidRequest)
    /\ last.fetches = 0

\* Why the collaborator request of the answered call failed, as makeRequest
\* words it: the status and body text of a response that is not ok, else the
\* message of the error fetch or response.json() raised.
Cause ==
    IF last.outcome.o = "status"
    THEN "HTTP " \o ToString(last.outcome.status) \o ": " \o last.outcome.text
    ELSE last.outcome.message

\* The collaborator request of the answered call has failed.
DownstreamFailed ==
    /\ Answered
    /\ last.fetches = 1
    /\ last.outcome.o \in {"status", "network", "badjson"}

\* C22: a call whose downstream request failed is answered with the single
\* text "Error: API request failed: " followed by the cause, whichever tool
\* it is; in particular never with the tool's success text.
C22_DownstreamFailureIsNarrated ==
    DownstreamFailed => AnsweredWithText("Error: API request failed: " \o Cause)

\* delete_dns_record, whose success text does not use the collaborator's
\* answer, is answered after its request came back with status 404.
C22_Witness ==
    /\ DownstreamFailed
    /\ last.req.params.name.s = "delete_dns_record"
    /\ last.req.params.args = FullArgs("delete_dns_record")
    /\ last.outcome = FetchStatus(404, "Not Found")
    /\ AnsweredWithText("Error: API request failed: HTTP 404: Not Found")

\* The tools whose method passes a data argument to makeRequest.
PassesData ==
    { "create_dns_record", "update_dns_record", "create_email_account",
      "create_ssl_certificate", "create_backup", "restore_backup" }

\* C23 as stated: every downstream request goes to baseUrl + path with the
\* bearer token of the configuration, carries a JSON body when its method is
\* POST, PUT, PATCH or DELETE and carries none when it is GET.
C23_MutatingRequestsCarryABody ==
    \A c \in calls :
        /\ c.fetch.url = BaseUrl \o Endpoint(c.req.params.name.s,
                                            IF c.req.params.name.s = "get_invoices"
                                            THEN InvoiceParams(c.req.params.args)
                                            ELSE c.req.params.args)
        /\ c.fetch.authorization = "Bearer " \o env.apiKey
        /\ c.fetch.method \in {"POST", "PUT", "PATCH", "DELETE"} => c.fetch.hasBody
        /\ c.fetch.method = "GET" => ~c.fetch.hasBody

\* C23, amended: every downstream request goes to baseUrl + path with the
\* bearer token of the configuration; it carries a JSON body exactly when its
\* method is POST, PUT or PATCH and the tool passes an object as data, so GET
\* and DELETE requests, the POSTs of start_vps, stop_vps and restart_vps and
\* the POST of create_ssl_certificate called without arguments carry none.
C23_BodyOnlyWithData ==
    \A c \in calls :
        /\ c.fetch.url = BaseUrl \o Endpoint(c.req.params.name.s,
                                            IF c.req.params.name.s = "get_invoices"
                                            THEN InvoiceParams(c.req.params.args)
                                            ELSE c.req.params.args)
        /\ c.fetch.authorization = "Bearer " \o env.apiKey
        /\ env.apiKey = "secret"
        /\ c.fetch.hasBody
           <=> /\ c.fetch.method \in {"POST", "PUT", "PATCH"}
               /\ c.req.params.name.s \in PassesData
               /\ c.req.params.args.k = "obj"
        /\ c.fetch.method \in {"GET", "DELETE"} => ~c.fetch.hasBody

\* update_dns_record awaits its PUT, which carries the record data, with the
\* bearer token in its header.
C23_Witness ==
    \E c \in calls :
        /\ c.req.params.name.s = "update_dns_record"
        /\ c.fetch.method = "PUT"
        /\ c.fetch.hasBody
        /\ c.fetch.authorization = "Bearer secret"
        /\ c.fetch.url = "https://api.hostinger.com/v1/domains/domain_id-1/dns/record_id-1"

\* The value a downstream path shows for an optional argument: what the
\* caller supplied under `key`, whatever it is, else the declared default.
Shown(args, key, default) ==
    IF args.k = "obj" /\ key \in DOMAIN args.obj THEN Interp(args.obj[key]) ELSE default

\* C24: the downstream path of get_vps_usage has period=24h when the caller
\* gave no period, that of get_invoices has limit=10 and offset=0 when the
\* caller gave no limit or offset, and a value the caller gave, a falsy one
\* included, is the one in the path.
C24_DefaultsApplyUnlessSupplied ==
    \A c \in calls :
        /\ c.req.params.name.s = "get_vps_usage"
           => c.fetch.url = "https://api.hostinger.com/v1/vps/"
                            \o Interp(Get(c.req.params.args, "vps_id"))
                            \o "/usage?period=" \o Shown(c.req.params.args, "period", "24h")
        /\ c.req.params.name.s = "get_invoices"
           => c.fetch.url = "https://api.hostinger.com/v1/invoices?limit="
                            \o Shown(c.req.params.args, "limit", "10")
                            \o "&offset=" \o Shown(c.req.params.args, "offset", "0")

\* get_invoices called without arguments awaits the request with both
\* defaults in its path.
C24_Witness ==
    \E c \in calls :
        /\ c.req.params.name.s = "get_invoices"
        /\ c.req.params.args = NoObj
        /\ c.fetch.url = "https://api.hostinger.com/v1/invoices?limit=10&offset=0"
        /\ c.fetch.method = "GET"

\* The calls of list_domains a client may make next.
LaterCalls ==
    {Body(JStr("2.0"), JStr("tools/call"), i, Params(JStr("list_domains"), Obj(EmptyObj))) :
        i \in FewIds}

\* C25: a call is answered only once its own downstream request has settled
\* (nothing times it out or cancels it), and a call that hangs blocks nothing:
\* every call in flight is answered as soon as its own request settles,
\* however it settles and whatever other calls still hang, and a further
\* call, on stdio or by POST, is still accepted.
C25_HungCallsBlockNothing ==
    /\ (Answered /\ CallsCataloguedTool(last.req)
          /\ ArgumentError(last.req.params.name.s, last.req.params.args) = "")
       => last.fetches = 1 /\ last.outcome # NoOutcome
    /\ \A d \in calls : \A outcome \in FewOutcomes : ENABLED FetchSettles(d, outcome)
    /\ \A s \in 1..Len(sessions) : \A msg \in LaterCalls :
          (/\ phase = "running"
           /\ sessions[s] = "stdio"
           /\ \A c \in calls : c.chan = s => c.req.id # msg.id)
          => ENABLED StdioRequest(s, msg)
    /\ \A body \in LaterCalls :
          (/\ phase = "running"
           /\ "POST /mcp" \in routes
           /\ \A c \in calls : c.chan = 0 => c.req # body)
          => ENABLED PostMcp(body)

\* A POST /mcp call is answered, its request having settled, while a call
\* posted before it with a smaller id still awaits the collaborator.
C25_Witness ==
    /\ ViaPost
    /\ last.fetches = 1
    /\ last.req.id = JNum(1)
    /\ \E c \in calls : c.chan = 0 /\ c.req.id = JNum(0)

\* C26: on POST /mcp the jsonrpc literal is checked before the method, so a
\* request with a wrong literal and an unknown method is answered with code
\* -32600; and the statuses pair with the codes: 400 comes only with -32600
\* or -32601, 500 only with -32603 and 200 only with a result.
C26_ChecksInOrderAndStatusesPaired ==
    ViaPost
    => /\ (/\ last.req.k = "obj"
           /\ last.req.jsonrpc # JStr("2.0")
           /\ last.req.method \notin {JStr("tools/list"), JStr("tools/call")})
          => AnsweredWithError(400, InvalidRequest)
       /\ \A i \in 1..Len(last.writes) :
             /\ last.writes[i].status \in {200, 400, 500}
             /\ last.writes[i].status = 400
                => /\ ErrorShaped(last.writes[i].env)
                   /\ last.writes[i].env.error.code \in {InvalidRequest, MethodNotFound}
             /\ last.writes[i].status = 500
                => /\ ErrorShaped(last.writes[i].env)
                   /\ last.writes[i].env.error.code = InternalError
             /\ last.writes[i].status = 200 => ResultShaped(last.writes[i].env)

====
